---------------------------- MODULE Spec2Model ----------------------------
(***************************************************************************)
(* amrplot: the interactive shell of src/amrplot.py as a state machine.    *)
(*                                                                         *)
(* A Python str is a sequence of one-character strings, None is the empty  *)
(* tuple and any other value v of an optional attribute is <<v>>.  A float *)
(* is an integer count of halves (Float(1) = 2), so that 0.5*(a+b) is      *)
(* exact on the values the shell can be given here.                        *)
(***************************************************************************)
EXTENDS Integers, Sequences, FiniteSets, TLC

(***************************************************************************)
(* Bounds of the model.                                                    *)
(***************************************************************************)
\* plot objects that can be told apart: a new one differs from the one held
MaxPlots == 2

(***************************************************************************)
(* Python values.                                                          *)
(***************************************************************************)
None == <<>>
Some(v) == <<v>>
IsNone(o) == Len(o) = 0
Val(o) == o[1]

\* the float n, in halves
Float(n) == 2 * n

(***************************************************************************)
(* String literals of the source.                                          *)
(***************************************************************************)
s_help == <<"h", "e", "l", "p">>
s_load == <<"l", "o", "a", "d">>
s_listvar == <<"l", "i", "s", "t", "v", "a", "r">>
s_plot == <<"p", "l", "o", "t">>
s_quit == <<"q", "u", "i", "t">>
s_replot == <<"r", "e", "p", "l", "o", "t">>
s_reset == <<"r", "e", "s", "e", "t">>
s_save == <<"s", "a", "v", "e">>
s_set == <<"s", "e", "t">>
s_log == <<"l", "o", "g">>
s_xlim == <<"x", "l", "i", "m">>
s_xrange == <<"x", "r", "a", "n", "g", "e">>
s_ylim == <<"y", "l", "i", "m">>
s_yrange == <<"y", "r", "a", "n", "g", "e">>
s_zlim == <<"z", "l", "i", "m">>
s_zrange == <<"z", "r", "a", "n", "g", "e">>
s_grid == <<"g", "r", "i", "d">>
s_center == <<"c", "e", "n", "t", "e", "r">>
s_normal == <<"n", "o", "r", "m", "a", "l">>
s_true == <<"t", "r", "u", "e">>
s_1 == <<"1">>
s_on == <<"o", "n">>
s_t == <<"t">>
s_false == <<"f", "a", "l", "s", "e">>
s_0 == <<"0">>
s_off == <<"o", "f", "f">>
s_f == <<"f">>
s_x == <<"x">>
s_y == <<"y">>
s_z == <<"z">>
s_theta == <<"t", "h", "e", "t", "a">>
s_boxlib == <<"b", "o", "x", "l", "i", "b">>

COMMANDS == <<s_help, s_load, s_listvar, s_plot, s_quit, s_replot, s_reset,
              s_save, s_set>>

(***************************************************************************)
(* str methods and the re calls the shell uses.                            *)
(***************************************************************************)
Range(s) == {s[i] : i \in 1..Len(s)}

Whitespace == {" ", "\t"}

UpperToLower ==
    [c \in {"A", "B", "C", "D", "E", "F", "G", "H", "I", "J", "K", "L", "M",
             "N", "O", "P", "Q", "R", "S", "T", "U", "V", "W", "X", "Y", "Z"} |->
       CASE c = "A" -> "a" [] c = "B" -> "b" [] c = "C" -> "c"
         [] c = "D" -> "d" [] c = "E" -> "e" [] c = "F" -> "f"
         [] c = "G" -> "g" [] c = "H" -> "h" [] c = "I" -> "i"
         [] c = "J" -> "j" [] c = "K" -> "k" [] c = "L" -> "l"
         [] c = "M" -> "m" [] c = "N" -> "n" [] c = "O" -> "o"
         [] c = "P" -> "p" [] c = "Q" -> "q" [] c = "R" -> "r"
         [] c = "S" -> "s" [] c = "T" -> "t" [] c = "U" -> "u"
         [] c = "V" -> "v" [] c = "W" -> "w" [] c = "X" -> "x"
         [] c = "Y" -> "y" [] c = "Z" -> "z"]

\* str.lower()
lower(s) == [i \in 1..Len(s) |->
               IF s[i] \in DOMAIN UpperToLower THEN UpperToLower[s[i]] ELSE s[i]]

\* s.replace(c, "") for every character c of cs
RemoveChars(s, cs) == SelectSeq(s, LAMBDA c : c \notin cs)

startswith(s, c) == Len(s) >= 1 /\ s[1] = c
endswith(s, c) == Len(s) >= 1 /\ s[Len(s)] = c

\* s[1:-1]
StripEnds(s) == IF Len(s) <= 2 THEN <<>> ELSE SubSeq(s, 2, Len(s) - 1)

\* pp[i:] with Python's 0-based, clamping slice
SliceFrom(pp, i) == IF i >= Len(pp) THEN <<>> ELSE SubSeq(pp, i + 1, Len(pp))
\* pp[i:j]
Slice(pp, i, j) ==
    LET hi == IF j > Len(pp) THEN Len(pp) ELSE j
    IN  IF i >= hi THEN <<>> ELSE SubSeq(pp, i + 1, hi)

RECURSIVE SplitOn(_, _, _, _, _)
\* the pieces of s between runs of delimiter characters, empty ones included
\* as re.split leaves them; cur is the piece being read, acc the pieces read
SplitOn(s, delims, i, cur, acc) ==
    IF i > Len(s) THEN Append(acc, cur)
    ELSE IF s[i] \in delims
         THEN IF i > 1 /\ s[i - 1] \in delims
              THEN SplitOn(s, delims, i + 1, cur, acc)
              ELSE SplitOn(s, delims, i + 1, <<>>, Append(acc, cur))
         ELSE SplitOn(s, delims, i + 1, Append(cur, s[i]), acc)

\* filter(None, pieces)
FilterEmpty(pieces) == SelectSeq(pieces, LAMBDA p : Len(p) > 0)

\* str.split(): the maximal runs of non-whitespace characters
split(s) == FilterEmpty(SplitOn(s, Whitespace, 1, <<>>, <<>>))

RECURSIVE join(_, _)
\* sep.join(pp)
join(sep, pp) ==
    IF Len(pp) = 0 THEN <<>>
    ELSE IF Len(pp) = 1 THEN pp[1]
    ELSE pp[1] \o sep \o join(sep, Tail(pp))

(***************************************************************************)
(* float(token) on the decimal spellings [+-]digits[.0*]; every other      *)
(* token of the input alphabet raises ValueError.                          *)
(***************************************************************************)
Digits == {"0", "1", "2", "3", "4", "5", "6", "7", "8", "9"}
DigitVal == [c \in Digits |->
               CASE c = "0" -> 0 [] c = "1" -> 1 [] c = "2" -> 2 [] c = "3" -> 3
                 [] c = "4" -> 4 [] c = "5" -> 5 [] c = "6" -> 6 [] c = "7" -> 7
                 [] c = "8" -> 8 [] c = "9" -> 9]

RECURSIVE DecimalValue(_, _)
DecimalValue(ds, acc) ==
    IF Len(ds) = 0 THEN acc
    ELSE DecimalValue(Tail(ds), 10 * acc + DigitVal[Head(ds)])

float(tok) ==
    LET signed  == Len(tok) >= 1 /\ tok[1] \in {"+", "-"}
        body    == IF signed THEN Tail(tok) ELSE tok
        dots    == {i \in 1..Len(body) : body[i] = "."}
        intpart == IF dots = {} THEN body
                   ELSE SubSeq(body, 1, (CHOOSE i \in dots : \A j \in dots : i <= j) - 1)
        frac    == IF dots = {} THEN <<>>
                   ELSE SubSeq(body, Len(intpart) + 2, Len(body))
        ok      == /\ Len(intpart) >= 1
                   /\ Range(intpart) \subseteq Digits
                   /\ Range(frac) \subseteq {"0"}
        mag     == Float(DecimalValue(intpart, 0))
    IN  IF ok
        THEN [ok |-> TRUE, val |-> IF signed /\ tok[1] = "-" THEN 0 - mag ELSE mag]
        ELSE [ok |-> FALSE, val |-> 0]


(***************************************************************************)
(* The collaborators: the files yt.load identifies, the datasets it        *)
(* returns for them, and the fields yt.SlicePlot cannot index.             *)
(***************************************************************************)
s_rho == <<"r", "h", "o">>
s_bad == <<"b", "a", "d">>
s_a == <<"a">>
s_b == <<"b">>

\* dataset handle -> what the shell reads from it
Dataset ==
    [A |-> [field_list |-> << <<s_boxlib, s_rho>>, <<s_boxlib, s_bad>> >>,
            gas |-> {s_rho},
            geometry |-> "cartesian",
            domain_dimensions |-> <<4, 4, 4>>,
            domain_left_edge |-> <<Float(0), Float(0), Float(0)>>,
            domain_right_edge |-> <<Float(8), Float(8), Float(8)>>,
            unplottable |-> {s_bad}],
     B |-> [field_list |-> << <<s_boxlib, s_rho>> >>,
            gas |-> {s_rho},
            geometry |-> "cylindrical",
            domain_dimensions |-> <<4, 4, 1>>,
            domain_left_edge |-> <<Float(0), Float(-2), Float(0)>>,
            domain_right_edge |-> <<Float(4), Float(6), Float(1)>>,
            unplottable |-> {}]]

\* path -> dataset handle, for the paths yt.load identifies
Files == [p \in {s_a, s_b} |-> IF p = s_a THEN "A" ELSE "B"]

\* yt.load(name): a dataset handle, or YTOutputNotIdentified
yt_load(name) ==
    IF name \in DOMAIN Files THEN [exc |-> "", ds |-> Files[name]]
    ELSE [exc |-> "YTOutputNotIdentified", ds |-> ""]

(***************************************************************************)
(* What one command prints and which collaborator calls it makes.          *)
(***************************************************************************)
Msg(text) == [text |-> text, nums |-> <<>>, strs |-> <<>>]
MsgOf(text, nums, strs) == [text |-> text, nums |-> nums, strs |-> strs]

NoNormal == [kind |-> "", s |-> <<>>, v |-> <<>>]
Call(fn, s, h) ==
    [fn |-> fn, s |-> s, h |-> h, ds |-> "", normal |-> NoNormal,
     origin |-> "", center |-> <<>>, width |-> <<>>, flag |-> FALSE]

print(w, m) == [w EXCEPT !.out = Append(@, m)]
called(w, c) == [w EXCEPT !.calls = Append(@, c)]

\* a function returned normally / raised exc
Return(w) == [w |-> w, exc |-> ""]
Raise(w, exc) == [w |-> w, exc |-> exc]

(***************************************************************************)
(* class FileInfo                                                          *)
(***************************************************************************)
FileInfo_init ==
    [name |-> None, varlist |-> None, ds |-> None,
     is_axisymmetric |-> FALSE, dim |-> -1]

\* the derivation followed by dropping the field and the plot of the old file
load_derive_drops_plot(w) ==
    IF IsNone(w.ff.ds) THEN Raise(w, "AttributeError")
    ELSE Return([w EXCEPT
                   !.ff.varlist = Some(Dataset[Val(w.ff.ds)].field_list),
                   !.ff.is_axisymmetric = (Dataset[Val(w.ff.ds)].geometry = "cylindrical"),
                   !.ff.dim = IF Dataset[Val(w.ff.ds)].domain_dimensions[3] = 1
                              THEN 2 ELSE 3,
                   !.ss.varname = None,
                   !.ss.current_plot_object = None])

\* lines 66-71 of FileInfo.load: the attributes read from self.ds
load_derive(w) ==
    IF IsNone(w.ff.ds) THEN Raise(w, "AttributeError")
    ELSE Return([w EXCEPT
                   !.ff.varlist = Some(Dataset[Val(w.ff.ds)].field_list),
                   !.ff.is_axisymmetric = (Dataset[Val(w.ff.ds)].geometry = "cylindrical"),
                   !.ff.dim = IF Dataset[Val(w.ff.ds)].domain_dimensions[3] = 1
                              THEN 2 ELSE 3])

\* the try block with an except clause that leaves the name assigned
load_try_keeps_name(w, fn) ==
    IF yt_load(fn).exc = ""
    THEN [called(w, Call("yt.load", fn, 0)) EXCEPT
            !.ff.name = Some(fn), !.ff.ds = Some(yt_load(fn).ds)]
    ELSE [print(called(w, Call("yt.load", fn, 0)), Msg("file unable to be opened\n"))
            EXCEPT !.ff.name = Some(fn)]

\* lines 58-64 of FileInfo.load: the try block around yt.load
load_try(w, fn) ==
    IF yt_load(fn).exc = ""
    THEN [called(w, Call("yt.load", fn, 0)) EXCEPT
            !.ff.name = Some(fn), !.ff.ds = Some(yt_load(fn).ds)]
    ELSE [print(called(w, Call("yt.load", fn, 0)), Msg("file unable to be opened\n"))
            EXCEPT !.ff.name = None]

\* FileInfo.load comparing the name typed, quotes and all, with the name held
FileInfo_load_unstripped(w, filename) ==
    IF IsNone(filename) THEN Raise(w, "AttributeError")
    ELSE
    LET fn == RemoveChars(Val(filename), {"\"", "'"})
    IN  IF filename = w.ff.name THEN Return(w)
        ELSE load_derive(load_try(print(w, MsgOf("trying to open: {}", <<>>, <<fn>>)), fn))

\* FileInfo.load(filename); filename is None when replot passes an unset name
FileInfo_load(w, filename) ==
    IF IsNone(filename) THEN Raise(w, "AttributeError")
    ELSE
    LET fn == RemoveChars(Val(filename), {"\"", "'"})
    IN  IF Some(fn) = w.ff.name THEN Return(w)
        ELSE load_derive(load_try(print(w, MsgOf("trying to open: {}", <<>>, <<fn>>)), fn))

\* FileInfo.file_loaded(msg): the printing is done by file_loaded_print
file_loaded(ff) == ~IsNone(ff.name)

\* file_loaded that never prints its msg
file_loaded_silent(w, msg) == w

file_loaded_print(w, msg) ==
    IF IsNone(w.ff.name) /\ ~IsNone(msg) THEN print(w, Msg(Val(msg))) ELSE w

(***************************************************************************)
(* class State                                                             *)
(***************************************************************************)
StrNormal(s) == [kind |-> "str", s |-> s, v |-> <<>>]
TupleNormal(v) == [kind |-> "tuple", s |-> <<>>, v |-> v]

State_init ==
    [xbounds |-> None, ybounds |-> None, zbounds |-> None,
     varname |-> None, vbounds |-> None,
     current_plot_object |-> None,
     log |-> FALSE, show_grid |-> FALSE, center |-> None,
     normal |-> StrNormal(s_z)]

\* 0.5*(a + b) on floats
Mid(a, b) == (a + b) \div 2

\* get_center without the test of dim: z is a midpoint for a 2D file too
get_center_z_midpoint(ss, ff) ==
    IF ~IsNone(ss.center) THEN Val(ss.center)
    ELSE
    LET ds   == Dataset[Val(ff.ds)]
        xctr == IF IsNone(ss.xbounds)
                THEN Mid(ds.domain_left_edge[1], ds.domain_right_edge[1])
                ELSE Mid(Val(ss.xbounds)[1], Val(ss.xbounds)[2])
        yctr == IF IsNone(ss.ybounds)
                THEN Mid(ds.domain_left_edge[2], ds.domain_right_edge[2])
                ELSE Mid(Val(ss.ybounds)[1], Val(ss.ybounds)[2])
        zctr == IF IsNone(ss.zbounds)
                THEN Mid(ds.domain_left_edge[3], ds.domain_right_edge[3])
                ELSE Mid(Val(ss.zbounds)[1], Val(ss.zbounds)[2])
    IN  <<xctr, yctr, zctr>>

get_center(ss, ff) ==
    IF ~IsNone(ss.center) THEN Val(ss.center)
    ELSE
    LET ds   == Dataset[Val(ff.ds)]
        xctr == IF IsNone(ss.xbounds)
                THEN Mid(ds.domain_left_edge[1], ds.domain_right_edge[1])
                ELSE Mid(Val(ss.xbounds)[1], Val(ss.xbounds)[2])
        yctr == IF IsNone(ss.ybounds)
                THEN Mid(ds.domain_left_edge[2], ds.domain_right_edge[2])
                ELSE Mid(Val(ss.ybounds)[1], Val(ss.ybounds)[2])
        zctr == IF ff.dim = 2 THEN Float(0)
                ELSE IF IsNone(ss.zbounds)
                     THEN Mid(ds.domain_left_edge[3], ds.domain_right_edge[3])
                     ELSE Mid(Val(ss.zbounds)[1], Val(ss.zbounds)[2])
    IN  <<xctr, yctr, zctr>>

get_width(ss, ff) ==
    LET ds     == Dataset[Val(ff.ds)]
        xwidth == IF IsNone(ss.xbounds)
                  THEN ds.domain_right_edge[1] - ds.domain_left_edge[1]
                  ELSE Val(ss.xbounds)[2] - Val(ss.xbounds)[1]
        ywidth == IF IsNone(ss.ybounds)
                  THEN ds.domain_right_edge[2] - ds.domain_left_edge[2]
                  ELSE Val(ss.ybounds)[2] - Val(ss.ybounds)[1]
        zwidth == IF ff.dim = 2 THEN Float(0)
                  ELSE IF IsNone(ss.zbounds)
                       THEN ds.domain_right_edge[3] - ds.domain_left_edge[3]
                       ELSE Val(ss.zbounds)[2] - Val(ss.zbounds)[1]
    IN  <<xwidth, ywidth, zwidth>>

get_normal(ss, ff) ==
    IF ff.is_axisymmetric THEN StrNormal(s_theta) ELSE ss.normal

\* the objects iterating over normal yields: the characters of a str, the
\* floats of a tuple
Elements(normal) ==
    IF normal.kind = "str"
    THEN [i \in 1..Len(normal.s) |-> [type |-> "str", val |-> 0]]
    ELSE [i \in 1..Len(normal.v) |-> [type |-> "float", val |-> normal.v[i]]]

\* element is 0: identity with the int object 0
IsIntZero(element) == element.type = "int" /\ element.val = 0

\* converter(element), given as its int result
converter(element) == IF IsIntZero(element) THEN 0 ELSE 1

RECURSIVE sum(_)
sum(xs) == IF Len(xs) = 0 THEN 0 ELSE Head(xs) + sum(Tail(xs))

is_off_axis(ss, ff) ==
    LET els == Elements(ss.normal)
    IN  ~(sum([i \in 1..Len(els) |-> converter(els[i])]) = 1 \/ ff.is_axisymmetric)

\* the warning is_off_axis prints
is_off_axis_print(w) ==
    IF w.ss.normal # StrNormal(s_theta) /\ w.ff.is_axisymmetric
    THEN print(w, Msg("alternate normal setting cannot be applied to axisymmetric plots"))
    ELSE w

\* a reset that keeps the plot object held
State_reset_keeps_plot(ss) ==
    [State_init EXCEPT !.current_plot_object = ss.current_plot_object]

\* State.reset(): __init__ with the same file_info
State_reset(ss) == State_init

(***************************************************************************)
(* check_arg_error and parse_tuple                                         *)
(***************************************************************************)
check_arg_error(pp, numargs) == Len(pp) \notin Range(numargs)
check_arg_error_print(w, pp, numargs) ==
    IF check_arg_error(pp, numargs)
    THEN print(w, MsgOf("command requires {} argument(s), {} given",
                        numargs \o <<Len(pp)>>, <<>>))
    ELSE w

Brackets == {"(", ")", "[", "]", "{", "}", "<", ">"}

\* parse_tuple(pp, startIndex, endIndex): the slices clamp and neither re call
\* raises, so the except clauses never run
parse_tuple(pp, startIndex, endIndex) ==
    LET part      == IF IsNone(endIndex) THEN SliceFrom(pp, startIndex)
                     ELSE Slice(pp, startIndex, Val(endIndex))
        delim_str == RemoveChars(join(<<" ">>, part), Brackets)
    IN  [exc |-> "", msg |-> Msg(""),
         val |-> FilterEmpty(SplitOn(delim_str, {",", " ", ";"}, 1, <<>>, <<>>))]

RECURSIVE MapFloat(_, _, _, _)
\* a, b, ... = map(float, toks) with n targets: the tokens are converted as the
\* unpacking consumes them, n + 1 of them at most
MapFloat(toks, n, i, acc) ==
    IF i > Len(toks)
    THEN IF Len(toks) < n
         THEN [exc |-> "ValueError", val |-> <<>>,
               msg |-> MsgOf("not enough values to unpack", <<n, Len(toks)>>, <<>>)]
         ELSE [exc |-> "", val |-> acc, msg |-> Msg("")]
    ELSE IF ~float(toks[i]).ok
         THEN [exc |-> "ValueError", val |-> <<>>,
               msg |-> MsgOf("could not convert string to float", <<>>, <<toks[i]>>)]
         ELSE IF i = n + 1
              THEN [exc |-> "ValueError", val |-> <<>>,
                    msg |-> MsgOf("too many values to unpack", <<n>>, <<>>)]
              ELSE MapFloat(toks, n, i + 1, Append(acc, float(toks[i]).val))

\* the try block around the unpacking of a parsed tuple
Unpack(pp, n) ==
    LET unpack(t) ==
            IF t.exc # "" THEN [exc |-> t.exc, val |-> <<>>, msg |-> t.msg]
            ELSE MapFloat(t.val, n, 1, <<>>)
    IN  unpack(parse_tuple(pp, 1, None))

(***************************************************************************)
(* The renderer: yt.SlicePlot and the plot object's methods.               *)
(***************************************************************************)
\* a plot object other than the one the session still holds
NewPlotObject(held) ==
    CHOOSE h \in 1..MaxPlots :
        /\ h \notin Range(held)
        /\ \A g \in 1..MaxPlots : g \notin Range(held) => h <= g

\* yt.SlicePlot(ds, normal, field, [origin,] center, width): a new plot
\* object, or IndexError on a field the dataset lists but cannot index
SlicePlot(w, ds, normal, field, origin, center, width) ==
    LET c == [Call("yt.SlicePlot", field, NewPlotObject(w.ss.current_plot_object))
                EXCEPT !.ds = ds, !.normal = normal, !.origin = origin,
                       !.center = center, !.width = width]
    IN  IF field \in Dataset[ds].unplottable
        THEN [w |-> called(w, [c EXCEPT !.h = 0]), exc |-> "IndexError", slc |-> 0]
        ELSE [w |-> called(w, c), exc |-> "", slc |-> c.h]

(***************************************************************************)
(* The command handlers.                                                   *)
(***************************************************************************)
load_cmd(w, pp) ==
    IF check_arg_error(pp, <<1>>)
    THEN Return(check_arg_error_print(w, pp, <<1>>))
    ELSE FileInfo_load(w, Some(pp[1]))

RECURSIVE printAll(_, _)
\* for f in varlist: print(f)
printAll(w, fs) ==
    IF Len(fs) = 0 THEN w
    ELSE printAll(print(w, MsgOf("{}", <<>>, Head(fs))), Tail(fs))

listvar_cmd(w, pp) ==
    IF check_arg_error(pp, <<0, 1>>)
    THEN Return(check_arg_error_print(w, pp, <<0, 1>>))
    ELSE
    LET msg == IF Len(pp) = 1 THEN None
               ELSE Some("a file must be specified if one has not been loaded")
        list(r) ==
            IF r.exc # "" THEN r
            ELSE IF file_loaded(r.w.ff)
                 THEN Return(printAll(r.w, Val(r.w.ff.varlist)))
                 ELSE Return(file_loaded_print(r.w, msg))
    IN  list(IF Len(pp) = 1 THEN FileInfo_load(w, Some(pp[1])) ELSE Return(w))



\* lines 246-255 of plot_cmd: the plot object's methods
annotate_grids(w, slc, gridOK) ==
    IF ~w.ss.show_grid THEN w
    ELSE IF gridOK THEN called(w, Call("annotate_grids", <<>>, slc))
    ELSE print(called(w, Call("annotate_grids", <<>>, slc)),
               Msg("unable to show grid with current plot settings"))

set_log_show(w, slc) ==
    called(called(called(w, [Call("set_log", Val(w.ss.varname), slc)
                               EXCEPT !.flag = w.ss.log]),
                  Call("plt.clf", <<>>, 0)),
           Call("show", <<>>, slc))

\* plot_render with an except clause that leaves varname set
plot_render_keeps_varname(w, ds, center, width, gridOK) ==
    LET rendered(r) ==
            IF r.exc = "IndexError"
            THEN Return(print(r.w, Msg("invalid variable")))
            ELSE Return([set_log_show(annotate_grids(r.w, r.slc, gridOK), r.slc)
                           EXCEPT !.ss.current_plot_object = Some(r.slc)])
    IN  rendered(IF is_off_axis(w.ss, w.ff)
                 THEN SlicePlot(is_off_axis_print(w), ds, get_normal(w.ss, w.ff),
                                Val(w.ss.varname), "", center, width)
                 ELSE SlicePlot(is_off_axis_print(w), ds, get_normal(w.ss, w.ff),
                                Val(w.ss.varname), "native", center, width))

\* the body of plot_cmd from the try block on
plot_render(w, ds, center, width, gridOK) ==
    LET rendered(r) ==
            IF r.exc = "IndexError"
            THEN Return([print(r.w, Msg("invalid variable")) EXCEPT !.ss.varname = None])
            ELSE Return([set_log_show(annotate_grids(r.w, r.slc, gridOK), r.slc)
                           EXCEPT !.ss.current_plot_object = Some(r.slc)])
    IN  rendered(IF is_off_axis(w.ss, w.ff)
                 THEN SlicePlot(is_off_axis_print(w), ds, get_normal(w.ss, w.ff),
                                Val(w.ss.varname), "", center, width)
                 ELSE SlicePlot(is_off_axis_print(w), ds, get_normal(w.ss, w.ff),
                                Val(w.ss.varname), "native", center, width))

\* get_center as plot_cmd calls it, with the line it prints
get_center_print(w) ==
    IF IsNone(w.ss.center)
    THEN print(w, MsgOf("yctr = ", <<get_center(w.ss, w.ff)[2]>>, <<>>))
    ELSE w

\* lines 228-262 of plot_cmd: a file is loaded and var is the field typed
plot_var(w, var0, gridOK) ==
    LET var == IF \/ startswith(var0, "'") /\ endswith(var0, "'")
                  \/ startswith(var0, "\"") /\ endswith(var0, "\"")
               THEN StripEnds(var0) ELSE var0
    IN  IF \/ var \in Dataset[Val(w.ff.ds)].gas
           \/ <<s_boxlib, var>> \in Range(Dataset[Val(w.ff.ds)].field_list)
        THEN plot_render(get_center_print([w EXCEPT !.ss.varname = Some(var)]),
                         Val(w.ff.ds), get_center(w.ss, w.ff), get_width(w.ss, w.ff),
                         gridOK)
        ELSE Return(print(w, Msg("invalid variable")))

\* pp holds object references: replot passes file_info.name, which may be None
plot_cmd(w, pp, gridOK) ==
    IF check_arg_error(pp, <<1, 2>>)
    THEN Return(check_arg_error_print(w, pp, <<1, 2>>))
    ELSE
    LET msg == IF Len(pp) = 2 THEN None
               ELSE Some("a file must be specified if one has not been loaded")
        plot(r) ==
            IF r.exc # "" THEN r
            ELSE IF ~file_loaded(r.w.ff) THEN Return(file_loaded_print(r.w, msg))
            ELSE plot_var(r.w, Val(pp[Len(pp)]), gridOK)
    IN  plot(IF Len(pp) = 2 THEN FileInfo_load(w, pp[1]) ELSE Return(w))

\* the attributes a State object has
HasAttr(ss, attr) == attr \in DOMAIN ss

save_cmd(w, pp) ==
    IF check_arg_error(pp, <<1>>)
    THEN Return(check_arg_error_print(w, pp, <<1>>))
    ELSE
    LET ofile == pp[1]
    IN  IF ~HasAttr(w.ss, "current_plot_obj") THEN Raise(w, "AttributeError")
        ELSE IF ~IsNone(w.ss.current_plot_obj)
             THEN Return(called(w, Call("save", ofile, Val(w.ss.current_plot_obj))))
             ELSE Return(print(w, Msg("must generate plot before saving")))

true == {s_true, s_1, s_on, s_t}
false == {s_false, s_0, s_off, s_f}
settings == <<s_log, s_xlim, s_xrange, s_ylim, s_yrange, s_zlim, s_zrange,
              s_grid, s_center, s_normal>>

\* set_flag comparing the token as typed, without lower()
set_flag_case_sensitive(w, pp, attr) ==
    IF check_arg_error(pp, <<2>>)
    THEN Return(check_arg_error_print(w, pp, <<2>>))
    ELSE IF pp[2] \in true THEN Return([w EXCEPT !.ss[attr] = TRUE])
    ELSE IF pp[2] \in false THEN Return([w EXCEPT !.ss[attr] = FALSE])
    ELSE Return(print(w, MsgOf("input must be in {} or {}", <<>>, <<true, false>>)))

\* set log / set grid; attr is the attribute the branch assigns
set_flag(w, pp, attr) ==
    IF check_arg_error(pp, <<2>>)
    THEN Return(check_arg_error_print(w, pp, <<2>>))
    ELSE IF lower(pp[2]) \in true THEN Return([w EXCEPT !.ss[attr] = TRUE])
    ELSE IF lower(pp[2]) \in false THEN Return([w EXCEPT !.ss[attr] = FALSE])
    ELSE Return(print(w, MsgOf("input must be in {} or {}", <<>>, <<true, false>>)))



\* set_lim without the return of its except clause: a pair with min above max
\* is reported and stored all the same
set_lim_no_return(w, pp) ==
    LET is_x == startswith(lower(pp[1]), "x")
        is_y == ~is_x /\ startswith(lower(pp[1]), "y")
        is_z == ~is_x /\ ~is_y /\ startswith(lower(pp[1]), "z")
        report(nmin, nmax) ==
            IF nmin > nmax
            THEN print(w, MsgOf("min ({}) must be less than max ({})",
                                <<nmin, nmax>>, <<>>))
            ELSE w
        store(u) ==
            IF u.exc # "" THEN Return(print(w, u.msg))
            ELSE IF is_x
            THEN Return([report(u.val[1], u.val[2]) EXCEPT !.ss.xbounds = Some(u.val)])
            ELSE IF is_y
            THEN Return([report(u.val[1], u.val[2]) EXCEPT !.ss.ybounds = Some(u.val)])
            ELSE IF is_z
            THEN Return([report(u.val[1], u.val[2]) EXCEPT !.ss.zbounds = Some(u.val)])
            ELSE Return(report(u.val[1], u.val[2]))
    IN  store(Unpack(pp, 2))

\* set xlim/xrange/ylim/yrange/zlim/zrange; u.val is (nmin, nmax)
set_lim(w, pp) ==
    LET is_x == startswith(lower(pp[1]), "x")
        is_y == ~is_x /\ startswith(lower(pp[1]), "y")
        is_z == ~is_x /\ ~is_y /\ startswith(lower(pp[1]), "z")
        store(u) ==
            IF u.exc # "" THEN Return(print(w, u.msg))
            ELSE IF u.val[1] > u.val[2]
            THEN Return(print(w, MsgOf("min ({}) must be less than max ({})",
                                       u.val, <<>>)))
            ELSE IF is_x THEN Return([w EXCEPT !.ss.xbounds = Some(u.val)])
            ELSE IF is_y THEN Return([w EXCEPT !.ss.ybounds = Some(u.val)])
            ELSE IF is_z THEN Return([w EXCEPT !.ss.zbounds = Some(u.val)])
            ELSE Return(w)
    IN  store(Unpack(pp, 2))

set_center(w, pp) ==
    LET store(u) ==
            IF u.exc # "" THEN Return(print(w, u.msg))
            ELSE Return([w EXCEPT !.ss.center = Some(u.val)])
    IN  store(Unpack(pp, 3))

set_normal(w, pp) ==
    IF Len(pp) = 2
    THEN IF pp[2] \notin {s_x, s_y, s_z}
         THEN Return(print(w, Msg("invalid normal vector direction")))
         ELSE Return([w EXCEPT !.ss.normal = StrNormal(pp[2])])
    ELSE
    LET store(u) ==
            IF u.exc # "" THEN Return(print(w, u.msg))
            ELSE IF u.val = <<Float(0), Float(0), Float(0)>>
            THEN Return(print(w, Msg("normal vector cannot be zero vector")))
            ELSE Return([w EXCEPT !.ss.normal = TupleNormal(u.val)])
    IN  store(Unpack(pp, 3))

set_cmd(w, pp) ==
    IF Len(pp) = 0 THEN Raise(w, "IndexError")
    ELSE
    LET setting == lower(pp[1])
    IN  IF setting \notin Range(settings)
        THEN Return(print(w, MsgOf("{} not supported, setting must be in: {}",
                                   <<>>, <<setting>>)))
        ELSE IF setting = s_log THEN set_flag(w, pp, "log")
        ELSE IF setting \in {s_xlim, s_xrange, s_ylim, s_yrange, s_zlim, s_zrange}
        THEN set_lim(w, pp)
        ELSE IF setting = s_grid THEN set_flag(w, pp, "show_grid")
        ELSE IF setting = s_center THEN set_center(w, pp)
        ELSE set_normal(w, pp)

replot_cmd(w, pp, gridOK) ==
    IF check_arg_error(pp, <<0>>)
    THEN Return(check_arg_error_print(w, pp, <<0>>))
    ELSE IF IsNone(w.ss.varname)
    THEN Return(print(w, Msg("must plot first to use replot command")))
    ELSE plot_cmd(w, <<w.ff.name, w.ss.varname>>, gridOK)

reset_cmd(w, pp) ==
    IF check_arg_error(pp, <<0>>)
    THEN Return(check_arg_error_print(w, pp, <<0>>))
    ELSE Return([w EXCEPT !.ss = State_reset(w.ss)])

(***************************************************************************)
(* The lines typed at the prompt.                                          *)
(***************************************************************************)
\* a line made of words separated by single spaces
Typed(words) == join(<<" ">>, words)

s_q == <<"q">>
s_o == <<"o">>
s_foo == <<"f", "o", "o">>
s_yes == <<"y", "e", "s">>

l_empty == <<>>
l_space == <<" ">>
l_help == Typed(<<s_help>>)
l_quit == Typed(<<s_quit>>)
l_foo == Typed(<<s_foo>>)
l_load_a == <<"\t">> \o Typed(<<<<"L", "o", "a", "d">>, s_a>>) \o <<" ">>
l_load_b == Typed(<<s_load, s_b>>)
l_load_q == Typed(<<s_load, s_q>>)
l_load_qa == Typed(<<s_load, <<"'", "a", "'">> >>)
l_load == Typed(<<s_load>>)
l_listvar == Typed(<<s_listvar>>)
l_listvar_a == Typed(<<s_listvar, s_a>>)
l_listvar_b == Typed(<<s_listvar, s_b>>)
l_listvar_a_b == Typed(<<s_listvar, s_a, s_b>>)
l_plot_rho == Typed(<<s_plot, s_rho>>)
l_plot_b_rho == Typed(<<s_plot, s_b, <<"\"", "r", "h", "o", "\"">> >>)
l_plot_foo == Typed(<<s_plot, s_foo>>)
l_plot_bad == Typed(<<s_plot, s_bad>>)
l_plot == Typed(<<s_plot>>)
l_save_o == Typed(<<s_save, s_o>>)
l_save == Typed(<<s_save>>)
l_set == Typed(<<s_set>>)
l_set_foo == Typed(<<s_set, s_foo, s_1>>)
l_set_log_on == Typed(<<s_set, s_log, <<"O", "n">> >>)
l_set_log_0 == Typed(<<s_set, s_log, s_0>>)
l_set_log_yes == Typed(<<s_set, s_log, s_yes>>)
l_set_log == Typed(<<s_set, s_log>>)
l_set_grid_t == Typed(<<s_set, <<"G", "R", "I", "D">>, s_t>>)
l_set_grid_false == Typed(<<s_set, s_grid, s_false>>)
l_set_grid_yes == Typed(<<s_set, s_grid, s_yes>>)
l_set_xlim_1_5 == Typed(<<s_set, s_xlim, <<"1", ",", "5">> >>)
l_set_xlim_5_1 == Typed(<<s_set, s_xlim, <<"5", ",", "1">> >>)
l_set_xlim_1_1 == Typed(<<s_set, s_xlim, <<"1", ",", "1">> >>)
l_set_xlim_1 == Typed(<<s_set, s_xlim, s_1>>)
l_set_xlim_1_2_3 == Typed(<<s_set, s_xlim, <<"1", ",", "2", ",", "3">> >>)
l_set_xlim_1_a == Typed(<<s_set, s_xlim, <<"1", ",", "a">> >>)
l_set_xlim == Typed(<<s_set, s_xlim>>)
l_set_yrange == Typed(<<s_set, s_yrange, <<"(", "-", "1", ",">>, <<"3", ")">> >>)
l_set_zlim == Typed(<<s_set, s_zlim, <<"[", "2", ";", "4", "]">> >>)
l_set_center_1_2_3 == Typed(<<s_set, s_center, <<"1", ",", "2", ",", "3">> >>)
l_set_center_1_2 == Typed(<<s_set, s_center, <<"1", ",", "2">> >>)
l_set_normal_x == Typed(<<s_set, s_normal, s_x>>)
l_set_normal_q == Typed(<<s_set, s_normal, s_q>>)
l_set_normal_0_0_1 == Typed(<<s_set, s_normal, <<"0", ",">>, <<"0", ",">>, s_1>>)
l_set_normal_1_1_0 == Typed(<<s_set, s_normal, s_1, s_1, s_0>>)
l_set_normal_0_0_0 == Typed(<<s_set, s_normal, <<"(", "0">>, s_0, <<"0", ")">> >>)
l_replot == Typed(<<s_replot>>)
l_replot_x == Typed(<<s_replot, s_x>>)
l_reset == Typed(<<s_reset>>)
l_reset_x == Typed(<<s_reset, s_x>>)

\* kind of session -> the lines typed in it
Sessions ==
    [files  |-> {l_empty, l_space, l_help, l_quit, l_foo, l_load_a, l_load_b,
                 l_load_q, l_load_qa, l_load, l_listvar, l_listvar_a,
                 l_listvar_a_b},
     plots  |-> {l_load_a, l_load_q, l_plot_rho, l_plot_b_rho, l_plot_foo,
                 l_plot_bad, l_plot, l_save_o, l_save, l_replot, l_replot_x,
                 l_reset, l_reset_x},
     flags  |-> {l_set, l_set_foo, l_set_log_on, l_set_log_0, l_set_log_yes,
                 l_set_log, l_set_grid_t, l_set_grid_false, l_set_grid_yes,
                 l_load_a, l_plot_rho, l_reset},
     bounds |-> {l_set_xlim_1_5, l_set_xlim_5_1, l_set_xlim_1_1, l_set_xlim_1,
                 l_set_xlim_1_2_3, l_set_xlim_1_a, l_set_xlim, l_set_yrange, l_set_zlim,
                 l_set_center_1_2_3, l_set_center_1_2, l_load_a, l_listvar_b,
                 l_plot_rho, l_reset},
     normal |-> {l_set_normal_x, l_set_normal_q, l_set_normal_0_0_1,
                 l_set_normal_1_1_0, l_set_normal_0_0_0, l_load_a, l_load_b,
                 l_plot_rho, l_replot, l_reset}]

Lines == UNION {Sessions[k] : k \in DOMAIN Sessions}

\* the command word main() dispatches on, None when the line has none
Command(line) ==
    IF Len(split(line)) = 0 THEN None ELSE Some(lower(split(line)[1]))

CommandOf == [line \in Lines |-> Command(line)]

\* the lines of a session that dispatch to command
Typing(k, command) == {line \in Sessions[k] : CommandOf[line] = command}

(***************************************************************************)
(* The session: main()'s objects, what the last command read, printed and  *)
(* called, the exception that left main ("" while it loops), and the kind  *)
(* of session, which fixes the lines its user types.                       *)
(***************************************************************************)
VARIABLES ff, ss, cmd_str, out, calls, raised, session

vars == <<ff, ss, cmd_str, out, calls, raised, session>>

Init ==
    /\ ff = FileInfo_init
    /\ ss = State_init
    /\ cmd_str = <<>>
    /\ out = <<Msg("Welcome to amrplot.  Type 'help' for a list of commands.\n")>>
    /\ calls = <<>>
    /\ session \in DOMAIN Sessions
    /\ raised = ""

RECURSIVE printEach(_, _)
printEach(w, cs) ==
    IF Len(cs) = 0 THEN w
    ELSE printEach(print(w, MsgOf("{}", <<>>, <<Head(cs)>>)), Tail(cs))

\* lines 452-457 of main: the handler named after command, then print("")
call_cmd(w, command, args, gridOK) ==
    LET printed(r) == IF r.exc # "" THEN r ELSE Return(print(r.w, Msg("")))
    IN  printed(IF command = s_load THEN load_cmd(w, args)
                ELSE IF command = s_listvar THEN listvar_cmd(w, args)
                ELSE IF command = s_plot
                     THEN plot_cmd(w, [i \in 1..Len(args) |-> Some(args[i])], gridOK)
                ELSE IF command = s_replot THEN replot_cmd(w, args, gridOK)
                ELSE IF command = s_reset THEN reset_cmd(w, args)
                ELSE IF command = s_save THEN save_cmd(w, args)
                ELSE set_cmd(w, args))

\* lines 440-457 of main
dispatch(w, command, args, gridOK) ==
    IF command \notin Range(COMMANDS)
    THEN Return(print(w, Msg("invalid command\n")))
    ELSE IF command = s_help THEN Return(print(printEach(w, COMMANDS), Msg("")))
    ELSE IF command = s_quit THEN Raise(w, "SystemExit")
    ELSE call_cmd(w, command, args, gridOK)

\* lines 435-436 of main: parts[0] of an empty list raises IndexError
dispatch_parts(w, parts, gridOK) ==
    IF Len(parts) = 0 THEN Raise(w, "IndexError")
    ELSE dispatch(w, lower(parts[1]), Tail(parts), gridOK)

\* one pass of the while loop of main() on the line read
main(w, line, gridOK) ==
    IF line = <<>> THEN Return(w)
    ELSE dispatch_parts(w, split(line), gridOK)

\* the loop reads line and runs it to completion, or to the exception that
\* ends the process
Step(line, gridOK) ==
    LET loop(r) ==
            /\ ff' = r.w.ff
            /\ ss' = r.w.ss
            /\ out' = r.w.out
            /\ calls' = r.w.calls
            /\ raised' = r.exc
    IN  /\ raised = ""
        /\ loop(main([ff |-> ff, ss |-> ss, out |-> <<>>, calls |-> <<>>], line, gridOK))
        /\ session' = session
        /\ cmd_str' = line

NoCommand == \E line \in Typing(session, None) : Step(line, TRUE)
InvalidCommand ==
    \E line \in Sessions[session] :
        /\ ~IsNone(CommandOf[line])
        /\ Val(CommandOf[line]) \notin Range(COMMANDS)
        /\ Step(line, TRUE)
Help == \E line \in Typing(session, Some(s_help)) : Step(line, TRUE)
Quit == \E line \in Typing(session, Some(s_quit)) : Step(line, TRUE)
Load == \E line \in Typing(session, Some(s_load)) : Step(line, TRUE)
Listvar == \E line \in Typing(session, Some(s_listvar)) : Step(line, TRUE)
Plot ==
    \E line \in Typing(session, Some(s_plot)), gridOK \in BOOLEAN :
        Step(line, gridOK)
Replot ==
    \E line \in Typing(session, Some(s_replot)), gridOK \in BOOLEAN :
        Step(line, gridOK)
Reset == \E line \in Typing(session, Some(s_reset)) : Step(line, TRUE)
Save == \E line \in Typing(session, Some(s_save)) : Step(line, TRUE)
Set == \E line \in Typing(session, Some(s_set)) : Step(line, TRUE)

Next ==
    \/ NoCommand
    \/ InvalidCommand
    \/ Help
    \/ Quit
    \/ Load
    \/ Listvar
    \/ Plot
    \/ Replot
    \/ Reset
    \/ Save
    \/ Set

Spec == Init /\ [][Next]_vars

(***************************************************************************)
(* Vocabulary of the properties.                                           *)
(***************************************************************************)
\* the arguments main() hands to the handler of line
Args(line) == Tail(split(line))

\* line is command typed with n arguments
Runs(line, command, n) ==
    Command(line) = Some(command) /\ Len(Args(line)) = n

Printed(o, text) == \E i \in DOMAIN o : o[i].text = text

CallsTo(cs, fn) == SelectSeq(cs, LAMBDA c : c.fn = fn)

(***************************************************************************)
(* C1: a session ends only by quit: whenever main() has been left, the     *)
(* line that ended it is the quit command.                                 *)
(***************************************************************************)
C1_OnlyQuitEnds == raised # "" => Command(cmd_str) = Some(s_quit)

(***************************************************************************)
(* C2: save with no plot held prints "must generate plot before saving",   *)
(* calls no save, raises nothing and leaves State and FileInfo as they     *)
(* were.                                                                   *)
(***************************************************************************)
C2_SaveBeforePlot ==
    [][(Runs(cmd_str', s_save, 1) /\ IsNone(ss.current_plot_object))
        => /\ raised' = ""
           /\ Printed(out', "must generate plot before saving")
           /\ CallsTo(calls', "save") = <<>>
           /\ ss' = ss
           /\ ff' = ff]_vars

(***************************************************************************)
(* C3: save with a plot held calls save once, on the plot object stored by *)
(* the last successful plot, with the path typed.                          *)
(***************************************************************************)
C3_SaveAfterPlot ==
    [][(Runs(cmd_str', s_save, 1) /\ ~IsNone(ss.current_plot_object))
        => /\ raised' = ""
           /\ CallsTo(calls', "save")
                = <<Call("save", Args(cmd_str')[1], Val(ss.current_plot_object))>>]_vars

(***************************************************************************)
(* C4: a load the backend cannot identify prints the error and returns     *)
(* with no file loaded, whether or not a dataset was loaded before.        *)
(***************************************************************************)
C4_LoadFailure ==
    [][(/\ Runs(cmd_str', s_load, 1)
        /\ CallsTo(calls', "yt.load") # <<>>
        /\ yt_load(CallsTo(calls', "yt.load")[1].s).exc # "")
        => /\ raised' = ""
           /\ Printed(out', "file unable to be opened\n")
           /\ ~file_loaded(ff')]_vars

(***************************************************************************)
(* C5: replot with no varname prints "must plot first" and changes         *)
(* nothing; with a varname and a file loaded it renders that file and      *)
(* field; with a varname and no file loaded it returns to the prompt with  *)
(* the plot held unchanged.                                                *)
(***************************************************************************)
C5_Replot ==
    [][Runs(cmd_str', s_replot, 0)
        => /\ IsNone(ss.varname)
                => /\ Printed(out', "must plot first to use replot command")
                   /\ raised' = "" /\ ss' = ss /\ ff' = ff
           /\ (~IsNone(ss.varname) /\ file_loaded(ff))
                => /\ Len(CallsTo(calls', "yt.SlicePlot")) = 1
                   /\ CallsTo(calls', "yt.SlicePlot")[1].ds = Val(ff.ds)
                   /\ CallsTo(calls', "yt.SlicePlot")[1].s = Val(ss.varname)
                   /\ CallsTo(calls', "yt.load") = <<>>
           /\ (~IsNone(ss.varname) /\ ~file_loaded(ff))
                => /\ raised' = ""
                   /\ CallsTo(calls', "yt.SlicePlot") = <<>>
                   /\ ss'.current_plot_object = ss.current_plot_object]_vars

(***************************************************************************)
(* C6: every bound is unset or a pair with min strictly below max.         *)
(***************************************************************************)
C6_BoundsStrict ==
    \A b \in {ss.xbounds, ss.ybounds, ss.zbounds} :
        IsNone(b) \/ Val(b)[1] < Val(b)[2]

ValidationMessages ==
    {"min ({}) must be less than max ({})", "not enough values to unpack",
     "too many values to unpack", "could not convert string to float",
     "normal vector cannot be zero vector", "invalid normal vector direction"}

ValidationError(o) == \E i \in DOMAIN o : o[i].text \in ValidationMessages

MalformedSets ==
    {l_set_xlim_5_1, l_set_xlim_1, l_set_xlim_1_2_3, l_set_xlim_1_a, l_set_xlim,
     l_set_center_1_2, l_set_normal_q, l_set_normal_0_0_0}

(***************************************************************************)
(* C7: a set command rejected with a validation error leaves every         *)
(* attribute of State as it was; the malformed lines of the sessions are   *)
(* so rejected.                                                            *)
(***************************************************************************)
C7_RejectedSetKeepsState ==
    [][/\ cmd_str' \in MalformedSets => ValidationError(out')
       /\ (Command(cmd_str') = Some(s_set) /\ ValidationError(out'))
            => ss' = ss /\ raised' = ""]_vars

\* set xlim 5,1 was rejected while xbounds held (1, 5)
C7_Witness ==
    /\ cmd_str = l_set_xlim_5_1
    /\ ValidationError(out)
    /\ ss.xbounds = Some(<<Float(1), Float(5)>>)

NonZeroComponents(v) == Cardinality({i \in 1..Len(v) : v[i] # Float(0)})

OffAxisAsSpecified ==
    /\ ~ff.is_axisymmetric
    /\ ss.normal.kind = "tuple"
    /\ NonZeroComponents(ss.normal.v) # 1

(***************************************************************************)
(* C8: is_off_axis is false for an axisymmetric file, for an axis label    *)
(* and for a vector with exactly one non-zero component, and true for any  *)
(* other vector; a plot is framed at the native origin exactly when it is  *)
(* false.                                                                  *)
(***************************************************************************)
C8_OffAxis ==
    /\ is_off_axis(ss, ff) = OffAxisAsSpecified
    /\ \A i \in DOMAIN calls :
          (calls[i].fn = "yt.SlicePlot" /\ calls[i].h # 0)
            => (calls[i].origin = "native") = ~OffAxisAsSpecified

Arity(command) ==
    CASE command = s_load -> {1}
      [] command = s_listvar -> {0, 1}
      [] command = s_plot -> {1, 2}
      [] command = s_save -> {1}
      [] command = s_replot -> {0}
      [] command = s_reset -> {0}
      [] OTHER -> Nat

UsageError(line) ==
    /\ ~IsNone(Command(line))
    /\ LET command == Val(Command(line))
           args    == Args(line)
       IN  \/ command \notin Range(COMMANDS)
           \/ Len(args) \notin Arity(command)
           \/ /\ command = s_set
              /\ \/ Len(args) = 0
                 \/ lower(args[1]) \notin Range(settings)
                 \/ lower(args[1]) \in {s_log, s_grid} /\ Len(args) # 2

UsageMessages ==
    {"invalid command\n", "command requires {} argument(s), {} given",
     "{} not supported, setting must be in: {}"}

(***************************************************************************)
(* C9: a command typed with a number of arguments it does not allow, an    *)
(* unknown command and an unknown set key print a usage error and return   *)
(* to the prompt with State and FileInfo as they were.                     *)
(***************************************************************************)
C9_UsageErrors ==
    [][UsageError(cmd_str')
        => /\ raised' = ""
           /\ \E i \in DOMAIN out' : out'[i].text \in UsageMessages
           /\ ss' = ss
           /\ ff' = ff]_vars

\* the field a plot line names, quotes stripped
PlotVar(line) ==
    LET var == Args(line)[Len(Args(line))]
    IN  IF \/ startswith(var, "'") /\ endswith(var, "'")
           \/ startswith(var, "\"") /\ endswith(var, "\"")
        THEN StripEnds(var) ELSE var

InFieldSet(ds, var) ==
    var \in Dataset[ds].gas \/ <<s_boxlib, var>> \in Range(Dataset[ds].field_list)

(***************************************************************************)
(* C10: a plot of a field the loaded dataset does not have, or of a listed *)
(* field the renderer cannot index, prints "invalid variable" and leaves   *)
(* the plot held as it was; the second also clears varname, and replot     *)
(* with no varname prints "must plot first".                               *)
(***************************************************************************)
C10_InvalidField ==
    [][/\ (/\ Command(cmd_str') = Some(s_plot)
           /\ Len(Args(cmd_str')) \in {1, 2}
           /\ file_loaded(ff')
           /\ \/ ~InFieldSet(Val(ff'.ds), PlotVar(cmd_str'))
              \/ PlotVar(cmd_str') \in Dataset[Val(ff'.ds)].unplottable)
          => /\ raised' = ""
             /\ Printed(out', "invalid variable")
             /\ ss'.current_plot_object = ss.current_plot_object
             /\ InFieldSet(Val(ff'.ds), PlotVar(cmd_str')) => IsNone(ss'.varname)
       /\ (Runs(cmd_str', s_replot, 0) /\ IsNone(ss.varname))
          => Printed(out', "must plot first to use replot command")]_vars

\* the renderer failed on a listed field while a plot was held
C10_Witness ==
    /\ cmd_str = l_plot_bad
    /\ Printed(out, "invalid variable")
    /\ CallsTo(calls, "yt.SlicePlot") # <<>>
    /\ IsNone(ss.varname)
    /\ ~IsNone(ss.current_plot_object)

NotLoaded == "a file must be specified if one has not been loaded"

(***************************************************************************)
(* C11: plot with one argument while no file is loaded, at the start of a  *)
(* session or after a load that failed, prints the not-loaded message,     *)
(* makes no renderer call and leaves State and FileInfo as they were.      *)
(***************************************************************************)
C11_PlotNoFile ==
    [][(Runs(cmd_str', s_plot, 1) /\ ~file_loaded(ff))
        => /\ raised' = ""
           /\ Printed(out', NotLoaded)
           /\ calls' = <<>>
           /\ ss' = ss
           /\ ff' = ff]_vars

\* plot rho was refused after a failed load, with the plot and the dataset of
\* the file loaded before still held
C11_Witness ==
    /\ cmd_str = l_plot_rho
    /\ Printed(out, NotLoaded)
    /\ ~file_loaded(ff)
    /\ ~IsNone(ff.ds)
    /\ ~IsNone(ss.current_plot_object)
    /\ ~IsNone(ss.varname)

\* the defaults of the plot settings
ViewDefaults ==
    [xbounds |-> None, ybounds |-> None, zbounds |-> None, center |-> None,
     normal |-> StrNormal(s_z), log |-> FALSE, show_grid |-> FALSE,
     varname |-> None, vbounds |-> None, current_plot_object |-> None]

(***************************************************************************)
(* C12: reset puts every attribute of State back to its default and leaves *)
(* FileInfo as it was: the same name, dataset and derived attributes, so   *)
(* that a load of the name held right after it does not call yt.load.      *)
(***************************************************************************)
C12_Reset ==
    [][Runs(cmd_str', s_reset, 0)
        => /\ raised' = ""
           /\ ss' = ViewDefaults
           /\ ff' = ff
           /\ calls' = <<>>
           /\ file_loaded(ff')
                => FileInfo_load([ff |-> ff', ss |-> ss', out |-> <<>>,
                                  calls |-> <<>>], ff'.name).w.calls = <<>>]_vars

\* reset ran in a session of set and plot commands with a file loaded
C12_Witness ==
    /\ cmd_str = l_reset
    /\ session = "bounds"
    /\ raised = ""
    /\ ss = ViewDefaults
    /\ file_loaded(ff)
    /\ ff.dim = 2

\* the lines that hand a path to FileInfo.load, and the path they hand
Loads(line) ==
    \/ Runs(line, s_load, 1)
    \/ Runs(line, s_listvar, 1)
    \/ Runs(line, s_plot, 2)

PathOf(line) == RemoveChars(Args(line)[1], {"'", "\""})

(***************************************************************************)
(* C13: a load of the path already held, quotes stripped, calls yt.load    *)
(* not at all and leaves FileInfo as it was; a load of any other path,     *)
(* one whose last load failed included, calls yt.load once with it.        *)
(***************************************************************************)
C13_LoadSamePath ==
    [][Loads(cmd_str')
        => /\ ff.name = Some(PathOf(cmd_str'))
                => /\ CallsTo(calls', "yt.load") = <<>>
                   /\ ff' = ff
                   /\ raised' = ""
           /\ ff.name # Some(PathOf(cmd_str'))
                => CallsTo(calls', "yt.load")
                     = <<Call("yt.load", PathOf(cmd_str'), 0)>>]_vars

\* load 'a' was typed with a loaded: nothing was called
C13_Witness ==
    /\ cmd_str = l_load_qa
    /\ ff.name = Some(s_a)
    /\ calls = <<>>
    /\ raised = ""

TrueLiterals == {s_true, s_1, s_on, s_t}
FalseLiterals == {s_false, s_0, s_off, s_f}

\* the attribute of State a set log / set grid line is about
FlagOf(line) == IF lower(Args(line)[1]) = s_log THEN "log" ELSE "show_grid"

(***************************************************************************)
(* C14: set log and set grid compare the token in lower case: a true       *)
(* literal sets the flag, a false literal clears it, and any other token   *)
(* prints both literal sets and changes nothing; no attribute of State but *)
(* the flag named is ever changed.                                         *)
(***************************************************************************)
C14_FlagLiterals ==
    [][(Runs(cmd_str', s_set, 2) /\ lower(Args(cmd_str')[1]) \in {s_log, s_grid})
        => /\ raised' = ""
           /\ ff' = ff
           /\ lower(Args(cmd_str')[2]) \in TrueLiterals
                => ss' = [ss EXCEPT ![FlagOf(cmd_str')] = TRUE]
           /\ lower(Args(cmd_str')[2]) \in FalseLiterals
                => ss' = [ss EXCEPT ![FlagOf(cmd_str')] = FALSE]
           /\ lower(Args(cmd_str')[2]) \notin TrueLiterals \cup FalseLiterals
                => /\ ss' = ss
                   /\ \E i \in DOMAIN out' :
                         /\ out'[i].text = "input must be in {} or {}"
                         /\ out'[i].strs = <<TrueLiterals, FalseLiterals>>]_vars

\* set log yes was refused with both flags set, one of them by "On"
C14_Witness ==
    /\ cmd_str = l_set_log_yes
    /\ Printed(out, "input must be in {} or {}")
    /\ ss.log
    /\ ss.show_grid

\* the dataset FileInfo holds, and whether it is two-dimensional
Held == Dataset[Val(ff.ds)]
Is2D == Held.domain_dimensions[3] = 1

\* (a + b)/2 of the bound when it is set, of the domain edges when it is not
MidpointOn(bound, axis) ==
    IF IsNone(bound)
    THEN (Held.domain_left_edge[axis] + Held.domain_right_edge[axis]) \div 2
    ELSE (Val(bound)[1] + Val(bound)[2]) \div 2

CenterAsSpecified ==
    IF ~IsNone(ss.center) THEN Val(ss.center)
    ELSE <<MidpointOn(ss.xbounds, 1), MidpointOn(ss.ybounds, 2),
           IF Is2D THEN 0 ELSE MidpointOn(ss.zbounds, 3)>>

(***************************************************************************)
(* C15: get_center returns the center set when there is one; otherwise the *)
(* midpoint of the bound, or of the domain edges when the bound is unset,  *)
(* on x and y, and on z the same for a 3D dataset and 0 for a 2D one.      *)
(* The center every plot is rendered with is that one.                     *)
(***************************************************************************)
C15_Center ==
    /\ (~IsNone(ss.center) \/ ~IsNone(ff.ds))
          => get_center(ss, ff) = CenterAsSpecified
    /\ \A i \in DOMAIN calls :
          calls[i].fn = "yt.SlicePlot" => calls[i].center = CenterAsSpecified

\* a 2D file was plotted with xbounds (1, 5) and zbounds set, and no center
C15_Witness ==
    /\ IsNone(ss.center)
    /\ ff.dim = 2
    /\ ss.xbounds = Some(<<Float(1), Float(5)>>)
    /\ ~IsNone(ss.zbounds)
    /\ \E i \in DOMAIN calls :
          /\ calls[i].fn = "yt.SlicePlot"
          /\ calls[i].center = <<Float(3), Float(2), Float(0)>>

\* b - a of the bound when it is set, R - L of the domain edges when it is not
ExtentOn(bound, axis) ==
    IF IsNone(bound)
    THEN Held.domain_right_edge[axis] - Held.domain_left_edge[axis]
    ELSE Val(bound)[2] - Val(bound)[1]

WidthAsSpecified ==
    <<ExtentOn(ss.xbounds, 1), ExtentOn(ss.ybounds, 2),
      IF Is2D THEN 0 ELSE ExtentOn(ss.zbounds, 3)>>

(***************************************************************************)
(* C16: get_width returns on each axis the extent of the bound, or of the  *)
(* domain when the bound is unset, whatever the center, and 0 on z for a   *)
(* 2D dataset; the width on x and on y is always strictly positive.  Every *)
(* plot is rendered with that width.                                       *)
(***************************************************************************)
C16_Width ==
    /\ ~IsNone(ff.ds)
          => /\ get_width(ss, ff) = WidthAsSpecified
             /\ get_width(ss, ff)[1] > 0
             /\ get_width(ss, ff)[2] > 0
    /\ \A i \in DOMAIN calls :
          calls[i].fn = "yt.SlicePlot"
            => /\ calls[i].width = WidthAsSpecified
               /\ calls[i].width[1] > 0
               /\ calls[i].width[2] > 0

(***************************************************************************)
(* C17: whenever a file is loaded, ds is the dataset yt.load returns for   *)
(* name, and varlist, is_axisymmetric and dim are the values read from     *)
(* that dataset; until a load has succeeded no file is loaded and dim is   *)
(* -1.                                                                     *)
(***************************************************************************)
C17_FileInfoConsistent ==
    /\ file_loaded(ff)
          => /\ yt_load(Val(ff.name)).exc = ""
             /\ ff.ds = Some(yt_load(Val(ff.name)).ds)
             /\ ff.varlist = Some(Held.field_list)
             /\ ff.is_axisymmetric = (Held.geometry = "cylindrical")
             /\ ff.dim = IF Held.domain_dimensions[3] = 1 THEN 2 ELSE 3
    /\ IsNone(ff.ds)
          => /\ ~file_loaded(ff)
             /\ ff.dim = -1
             /\ IsNone(ff.varlist)

\* b was loaded in a session that loads a and an unidentified file as well
C17_Witness ==
    /\ session = "files"
    /\ cmd_str = l_load_b
    /\ raised = ""
    /\ file_loaded(ff)
    /\ ff.ds = Some("B")
    /\ ff.dim = 2
    /\ ff.is_axisymmetric

(***************************************************************************)
(* C18: a line with no token on it, empty or made of spaces and tabs only, *)
(* is ignored: main() goes on to the next line, having printed nothing,    *)
(* called nothing and changed nothing.                                     *)
(***************************************************************************)
C18_BlankLineIgnored ==
    [][IsNone(Command(cmd_str'))
        => /\ raised' = ""
           /\ out' = <<>>
           /\ calls' = <<>>
           /\ ss' = ss
           /\ ff' = ff]_vars

TupleSettings ==
    {s_xlim, s_xrange, s_ylim, s_yrange, s_zlim, s_zrange, s_center, s_normal}

(***************************************************************************)
(* C19: parse_tuple(pp, 1) on a pp with no element at index 1, as in a set *)
(* xlim or set center typed with no values, raises IndexError with the     *)
(* message that names argument number 2, which set prints; it does not     *)
(* return an empty tuple.                                                  *)
(***************************************************************************)
C19_OutOfRangeSlice ==
    [][(Runs(cmd_str', s_set, 1) /\ lower(Args(cmd_str')[1]) \in TupleSettings)
        => /\ parse_tuple(Args(cmd_str'), 1, None).exc = "IndexError"
           /\ parse_tuple(Args(cmd_str'), 1, None).val # <<>>
           /\ Printed(out', "unable to read delimited list, expected as argument number {}")]_vars

(***************************************************************************)
(* C20: load and listvar, whether FileInfo.load succeeds, fails or is      *)
(* skipped, leave every attribute of State as it was.                      *)
(***************************************************************************)
C20_LoadKeepsState ==
    [][Command(cmd_str') \in {Some(s_load), Some(s_listvar)} => ss' = ss]_vars

\* listvar b replaced the file with bounds, a center and a plot still held
C20_Witness ==
    /\ cmd_str = l_listvar_b
    /\ CallsTo(calls, "yt.load") # <<>>
    /\ ff.name = Some(s_b)
    /\ ~IsNone(ss.xbounds)
    /\ ~IsNone(ss.center)
    /\ ~IsNone(ss.varname)
    /\ ~IsNone(ss.current_plot_object)

=============================================================================
